---- MODULE Spec2Model ----
(***************************************************************************)
(* Model of ivy-priority-fee (src/src/main.rs): the fee-estimation         *)
(* pipeline get_reasonable_priority_fee and the per-transaction fee        *)
(* extraction of get_priority_fees_for_signatures.                         *)
(*                                                                         *)
(* Rust's u64 / i64 / u128 values do not fit TLC's integers, so a natural  *)
(* number is a little-endian sequence of base-256 limbs with no leading    *)
(* zero limb (<<>> is 0).  Widths are applied explicitly with Trunc.       *)
(***************************************************************************)
EXTENDS Integers, Sequences, FiniteSets

\* ------------------------------------------------------------------------
\* Natural numbers as limb sequences
\* ------------------------------------------------------------------------

RECURSIVE Norm(_)
\* drop the most significant zero limbs
Norm(s) ==
    IF s = <<>> THEN <<>>
    ELSE IF s[Len(s)] = 0 THEN Norm(SubSeq(s, 1, Len(s) - 1))
    ELSE s

Limb(a, k) == IF k <= Len(a) THEN a[k] ELSE 0

RECURSIVE LessFrom(_, _, _)
\* a < b, deciding on the limbs k, k-1, ..., 1 (both of length >= k)
LessFrom(a, b, k) ==
    IF k = 0 THEN FALSE
    ELSE IF a[k] # b[k] THEN a[k] < b[k]
    ELSE LessFrom(a, b, k - 1)

Less(a, b) ==
    IF Len(a) # Len(b) THEN Len(a) < Len(b) ELSE LessFrom(a, b, Len(a))

Leq(a, b) == ~Less(b, a)

RECURSIVE AddFrom(_, _, _, _)
AddFrom(a, b, k, carry) ==
    IF k > Len(a) /\ k > Len(b)
    THEN IF carry = 0 THEN <<>> ELSE <<carry>>
    ELSE LET t == Limb(a, k) + Limb(b, k) + carry
         IN  <<t % 256>> \o AddFrom(a, b, k + 1, t \div 256)

Add(a, b) == AddFrom(a, b, 1, 0)

RECURSIVE SubFrom(_, _, _, _)
SubFrom(a, b, k, borrow) ==
    IF k > Len(a) THEN <<>>
    ELSE LET t == a[k] - Limb(b, k) - borrow
         IN  IF t < 0 THEN <<t + 256>> \o SubFrom(a, b, k + 1, 1)
             ELSE <<t>> \o SubFrom(a, b, k + 1, 0)

\* a - b for a >= b
Sub(a, b) == Norm(SubFrom(a, b, 1, 0))

RECURSIVE Nat2Big(_)
\* a small integer as a limb sequence
Nat2Big(n) == IF n = 0 THEN <<>> ELSE <<n % 256>> \o Nat2Big(n \div 256)

RECURSIVE MulLimbFrom(_, _, _, _)
MulLimbFrom(a, d, k, carry) ==
    IF k > Len(a)
    THEN Nat2Big(carry)
    ELSE LET t == a[k] * d + carry
         IN  <<t % 256>> \o MulLimbFrom(a, d, k + 1, t \div 256)

\* a * d for one limb d
MulLimb(a, d) == IF d = 0 THEN <<>> ELSE MulLimbFrom(a, d, 1, 0)

RECURSIVE MulFrom(_, _, _)
\* a * (the limbs k.. of b)
MulFrom(a, b, k) ==
    IF k > Len(b) THEN <<>>
    ELSE LET rest == MulFrom(a, b, k + 1)
             hi   == IF rest = <<>> THEN <<>> ELSE <<0>> \o rest
         IN  Add(MulLimb(a, b[k]), hi)

\* b < 2^23, so that a limb times b and 256 times a remainder below b fit
\* the checker's integers
Small(b) == Len(b) <= 2 \/ (Len(b) = 3 /\ b[3] < 128)

\* the integer a small b stands for
ToInt(b) == Limb(b, 1) + 256 * Limb(b, 2) + 65536 * Limb(b, 3)

Mul(a, b) ==
    IF a = <<>> \/ b = <<>> THEN <<>>
    ELSE IF Small(b) THEN MulLimbFrom(a, ToInt(b), 1, 0)
    ELSE MulFrom(a, b, 1)

RECURSIVE Digit(_, _, _, _)
\* the largest d in lo..hi with d * b <= r  (lo * b <= r is given)
Digit(r, b, lo, hi) ==
    IF lo = hi \/ Less(r, b) THEN lo
    ELSE LET mid == (lo + hi + 1) \div 2
         IN  IF Leq(MulLimb(b, mid), r) THEN Digit(r, b, mid, hi)
             ELSE Digit(r, b, lo, mid - 1)

RECURSIVE DivFrom(_, _, _, _)
\* long division of a by b over the limbs k, k-1, ..., 1 with running
\* remainder r; the quotient's limbs, most significant computed first
DivFrom(a, b, k, r) ==
    IF k = 0 THEN <<>>
    ELSE LET r1 == Norm(<<a[k]>> \o r)
             d  == Digit(r1, b, 0, 255)
         IN  IF d = 0 THEN DivFrom(a, b, k - 1, r1) \o <<0>>
             ELSE DivFrom(a, b, k - 1, Sub(r1, MulLimb(b, d))) \o <<d>>

RECURSIVE ShortDivFrom(_, _, _, _)
\* the same division for a divisor m < 2^23, the remainder rem an integer
ShortDivFrom(a, m, k, rem) ==
    IF k = 0 THEN <<>>
    ELSE LET t == rem * 256 + a[k]
         IN  ShortDivFrom(a, m, k - 1, t % m) \o <<t \div m>>

\* floor(a / b) for b > 0
Div(a, b) ==
    IF Small(b) THEN Norm(ShortDivFrom(a, ToInt(b), Len(a), 0))
    ELSE Norm(DivFrom(a, b, Len(a), <<>>))

\* a mod 2^(8 * bytes): an `as` cast to, or a wrap in, an unsigned type
Trunc(a, bytes) ==
    IF Len(a) <= bytes THEN a ELSE Norm(SubSeq(a, 1, bytes))

\* 2^(8 * bytes)
Pow256(bytes) == [k \in 1..(bytes + 1) |-> IF k = bytes + 1 THEN 1 ELSE 0]

\* ------------------------------------------------------------------------
\* Program constants and integer types
\* ------------------------------------------------------------------------

MAX_RETRIES == 10

\* the base fee subtracted at main.rs:233
BASE_FEE == Nat2Big(5000)

\* the micro-lamport factor at main.rs:233
MICRO == Nat2Big(1000000)

\* the clamp at main.rs:70
FEE_CAP == Nat2Big(5000000)

\* 2^63: the first u64 value that `as i64` turns negative
I64_LIMIT == <<0, 0, 0, 0, 0, 0, 0, 128>>

\* u64::MAX
U64_MAX == [k \in 1..8 |-> 255]

\* `x as i64` for a u64 x: the sign and the magnitude of the result
AsI64(x) ==
    IF Less(x, I64_LIMIT) THEN [neg |-> FALSE, mag |-> x]
    ELSE [neg |-> TRUE, mag |-> Sub(Pow256(8), x)]

\* a variant that stops at 0 instead of wrapping
SaturatingSub128(a, b) == IF Leq(b, a) THEN Sub(a, b) ELSE <<>>

\* a - b in u128 without overflow checks (wraps modulo 2^128)
WrappingSub128(a, b) ==
    IF Leq(b, a) THEN Sub(a, b) ELSE Sub(Add(Pow256(16), a), b)

\* a * b in u128 without overflow checks (wraps modulo 2^128)
WrappingMul128(a, b) == Trunc(Mul(a, b), 16)

\* ------------------------------------------------------------------------
\* getTransaction (batch): get_priority_fees_for_signatures
\* ------------------------------------------------------------------------

\* Option<u64>
None64 == [some |-> FALSE, val |-> <<>>]
Some64(v) == [some |-> TRUE, val |-> v]

\* BatchItem<TransactionResult> as deserialised: error is Some, result is
\* Some, result.meta is Some, meta.fee, meta.compute_units_consumed
ErrorItem == [error |-> TRUE, result |-> FALSE, meta |-> FALSE,
              fee |-> <<>>, cu |-> None64]
NullResultItem == [error |-> FALSE, result |-> FALSE, meta |-> FALSE,
                   fee |-> <<>>, cu |-> None64]
NullMetaItem == [error |-> FALSE, result |-> TRUE, meta |-> FALSE,
                 fee |-> <<>>, cu |-> None64]
TxItem(fee, cu) == [error |-> FALSE, result |-> TRUE, meta |-> TRUE,
                    fee |-> fee, cu |-> cu]

\* meta.compute_units_consumed.unwrap_or(0) as i64
compute_units(item) == AsI64(IF item.cu.some THEN item.cu.val ELSE <<>>)

\* the `continue` branches of the loop over the responses
skipped(item) ==
    \/ item.error
    \/ ~item.result
    \/ ~item.meta
    \/ compute_units(item).neg
    \/ compute_units(item).mag = <<>>

\* (((fee_lamports - 5000) * 1_000_000) / (compute_units as u128)) as u64
\* for an item that is not skipped.  With overflow checks (a debug build)
\* an overflowing - or * panics; without them (a release build) it wraps.
priority_fee(item, checks) ==
    LET fee_lamports == item.fee
        underflow    == Less(fee_lamports, BASE_FEE)
        diff         == WrappingSub128(fee_lamports, BASE_FEE)
        overflow     == Len(Mul(diff, MICRO)) > 16
        prod         == WrappingMul128(diff, MICRO)
        quot         == Div(prod, compute_units(item).mag)
    IN  IF checks /\ (underflow \/ overflow)
        THEN [panic |-> TRUE, value |-> <<>>]
        ELSE [panic |-> FALSE, value |-> Trunc(quot, 8)]

RECURSIVE extract_zero_fill(_, _, _, _)
\* a variant that puts a 0 in the place of an item that carries an error
extract_zero_fill(responses, k, out, checks) ==
    IF k > Len(responses) THEN [tag |-> "Ok", out |-> out]
    ELSE IF responses[k].error
    THEN extract_zero_fill(responses, k + 1, Append(out, <<>>), checks)
    ELSE IF skipped(responses[k])
    THEN extract_zero_fill(responses, k + 1, out, checks)
    ELSE LET pf == priority_fee(responses[k], checks)
         IN  IF pf.panic THEN [tag |-> "Panic", out |-> <<>>]
             ELSE extract_zero_fill(responses, k + 1, Append(out, pf.value),
                                    checks)

RECURSIVE extract(_, _, _, _)
\* the loop over the responses from item k on, out being the samples so far
extract(responses, k, out, checks) ==
    IF k > Len(responses) THEN [tag |-> "Ok", out |-> out]
    ELSE IF skipped(responses[k]) THEN extract(responses, k + 1, out, checks)
    ELSE LET pf == priority_fee(responses[k], checks)
         IN  IF pf.panic THEN [tag |-> "Panic", out |-> <<>>]
             ELSE extract(responses, k + 1, Append(out, pf.value), checks)

\* What the node's answer to the batch POST can be: the request fails
\* ("send"), the status is not 200 ("status"), the body cannot be read
\* ("read"), the body is not a JSON array of batch items ("parse"), or it is
\* the array `responses` ("body").
BatchFailures == {"send", "status", "read", "parse"}

BodyReply(responses) == [kind |-> "body", responses |-> responses]
FailReply(kind) == [kind |-> kind, responses |-> <<>>]

Err(e) == [tag |-> "Err", err |-> e, out |-> <<>>]

get_priority_fees_for_signatures(signatures, reply, checks) ==
    IF reply.kind \in BatchFailures THEN Err(reply.kind)
    ELSE IF Len(reply.responses) = 0 /\ Len(signatures) # 0
    THEN Err("batch_too_large")
    ELSE LET r == extract(reply.responses, 1, <<>>, checks)
         IN  [tag |-> r.tag, err |-> "", out |-> r.out]

\* ------------------------------------------------------------------------
\* getSignaturesForAddress: get_signatures_for_address
\* ------------------------------------------------------------------------

\* What the node's answer to the single POST can be: the request fails
\* ("send"), the status is not 200 ("status"), the body is not a
\* SingleResponse ("parse"), or it is one ("body") whose error is Some or
\* not, whose result is Some or not, and whose result lists n signatures.
SigFailures == {"send", "status", "parse"}

SigBody(error, result, n) ==
    [kind |-> "body", error |-> error, result |-> result, n |-> n]
SigFail(kind) == [kind |-> kind, error |-> FALSE, result |-> FALSE, n |-> 0]

\* a variant that reads the result without looking at the error field
get_signatures_for_address_unchecked(reply) ==
    IF reply.kind \in SigFailures
    THEN [tag |-> "Err", err |-> reply.kind, sigs |-> <<>>]
    ELSE IF ~reply.result
    THEN [tag |-> "Err", err |-> "missing_result", sigs |-> <<>>]
    ELSE [tag |-> "Ok", err |-> "", sigs |-> [k \in 1..reply.n |-> k]]

get_signatures_for_address(reply) ==
    IF reply.kind \in SigFailures
    THEN [tag |-> "Err", err |-> reply.kind, sigs |-> <<>>]
    ELSE IF reply.error
    THEN [tag |-> "Err", err |-> "rpc_error", sigs |-> <<>>]
    ELSE IF ~reply.result
    THEN [tag |-> "Err", err |-> "missing_result", sigs |-> <<>>]
    ELSE [tag |-> "Ok", err |-> "", sigs |-> [k \in 1..reply.n |-> k]]

\* ------------------------------------------------------------------------
\* The median and the clamp of get_reasonable_priority_fee
\* ------------------------------------------------------------------------

RECURSIVE insert(_, _)
\* v put into the ascending sequence s
insert(s, v) ==
    IF s = <<>> THEN <<v>>
    ELSE IF Less(v, s[1]) THEN <<v>> \o s
    ELSE <<s[1]>> \o insert(Tail(s), v)

RECURSIVE sort_unstable(_)
sort_unstable(s) ==
    IF s = <<>> THEN <<>> ELSE insert(sort_unstable(Tail(s)), s[1])

\* a variant that does not clamp
min_left(a, b) == a

\* median.min(5_000_000)
min(a, b) == IF Less(b, a) THEN b ELSE a

\* a variant that takes the lower median of an even number of samples
median_lower(sorted) == sorted[((Len(sorted) - 1) \div 2) + 1]

\* priority_fees[priority_fees.len() / 2] of the sorted samples (0-based)
median(sorted) == sorted[(Len(sorted) \div 2) + 1]

\* ------------------------------------------------------------------------
\* Bounds and the answers the node is let to give
\* ------------------------------------------------------------------------

\* most signatures in a getSignaturesForAddress result
MaxSigs == 1

\* most items in a batch response during a request
MaxItems == 3

\* most items in a batch response given to the extraction alone
MaxBatch == 2

SeqUpTo(S, n) == UNION {[1..k -> S] : k \in 0..n}

\* transactions answered during a request: no compute units reported, the
\* samples 1_000_000 and 5_000_000, and a fee below 5000, which panics or
\* wraps to the sample 11363194349405082795
RequestItems ==
    { TxItem(Nat2Big(6000), None64),
      TxItem(Nat2Big(5001), Some64(Nat2Big(1))),
      TxItem(Nat2Big(10000), Some64(Nat2Big(1000))),
      TxItem(Nat2Big(4999), Some64(Nat2Big(1000))) }

SigReplies ==
    {SigFail(k) : k \in SigFailures}
        \cup {SigBody(e, r, n) : e \in BOOLEAN, r \in BOOLEAN, n \in 0..MaxSigs}

BatchReplies ==
    {FailReply(k) : k \in BatchFailures}
        \cup {BodyReply(rs) : rs \in SeqUpTo(RequestItems, MaxItems)}

\* ------------------------------------------------------------------------
\* One request: get_reasonable_priority_fee
\* ------------------------------------------------------------------------

VARIABLES
    overflow_checks,     \* the build panics on integer overflow
    pc,                  \* "start", "loop", "after_loop", "done", "panicked"
    signatures,          \* let signatures
    i,                   \* iterations of `for _ in 0..MAX_RETRIES` completed
    priority_fees,       \* let mut priority_fees
    priority_fee_error,  \* let mut priority_fee_error
    result,              \* what the function returned
    sig_calls,           \* history: calls of get_signatures_for_address
    sig_reply,           \* history: the node's answer to the signature call
    batch_calls,         \* history: calls of get_priority_fees_for_signatures
    last_batch,          \* history: what the latest batch call returned
    first_ok,            \* history: the first attempt that returned Ok, or 0
    first_ok_out,        \* history: the samples of that attempt
    responses,           \* extraction alone: the batch response
    extracted            \* extraction alone: what the loop returned

vars == <<overflow_checks, pc, signatures, i, priority_fees,
          priority_fee_error, result, sig_calls, sig_reply, batch_calls,
          last_batch, first_ok, first_ok_out, responses, extracted>>

request_vars == <<pc, signatures, i, priority_fees, priority_fee_error,
                  result, sig_calls, sig_reply, batch_calls, last_batch,
                  first_ok, first_ok_out>>

NoError == [some |-> FALSE, err |-> ""]
SomeError(e) == [some |-> TRUE, err |-> e]

NoResult == [tag |-> "None", fee |-> <<>>, err |-> ""]
OkResult(fee) == [tag |-> "Ok", fee |-> fee, err |-> ""]
ErrResult(e) == [tag |-> "Err", fee |-> <<>>, err |-> e]

NotCalled == [tag |-> "None", err |-> ""]

InitRequest ==
    /\ pc = "start"
    /\ signatures = <<>>
    /\ i = 0
    /\ priority_fees = <<>>
    /\ priority_fee_error = NoError
    /\ result = NoResult
    /\ sig_calls = 0
    /\ sig_reply = SigFail("none")
    /\ batch_calls = 0
    /\ last_batch = NotCalled
    /\ first_ok = 0
    /\ first_ok_out = <<>>

Init ==
    /\ overflow_checks \in BOOLEAN
    /\ InitRequest
    /\ responses = <<>>
    /\ extracted = [tag |-> "None", out |-> <<>>]

\* a variant that never takes the early return
no_signatures_never(sigs) == FALSE

\* signatures.is_empty() at main.rs:44
no_signatures(sigs) == sigs = <<>>

\* main.rs:43-46: the signature call, `?`, and the return on an empty list
fetch_signatures ==
    /\ pc = "start"
    /\ \E reply \in SigReplies :
        LET r == get_signatures_for_address(reply)
        IN  /\ sig_calls' = sig_calls + 1
            /\ sig_reply' = reply
            /\ IF r.tag = "Err"
               THEN /\ result' = ErrResult(r.err)
                    /\ pc' = "done"
                    /\ UNCHANGED signatures
               ELSE /\ signatures' = r.sigs
                    /\ IF no_signatures(r.sigs)
                       THEN result' = OkResult(<<>>) /\ pc' = "done"
                       ELSE result' = result /\ pc' = "loop"
    /\ UNCHANGED <<overflow_checks, i, priority_fees, priority_fee_error,
                   batch_calls, last_batch, first_ok, first_ok_out,
                   responses, extracted>>

\* a variant that keeps the first error
on_error_first(old, e) == IF old.some THEN old ELSE SomeError(e)

\* Err(e) => priority_fee_error = Some(e) at main.rs:57
on_error(old, e) == SomeError(e)

\* main.rs:51-59: one iteration of the retry loop
attempt ==
    /\ pc = "loop"
    /\ i < MAX_RETRIES
    /\ \E reply \in BatchReplies :
        LET r == get_priority_fees_for_signatures(signatures, reply,
                                                  overflow_checks)
        IN  /\ batch_calls' = batch_calls + 1
            /\ last_batch' = [tag |-> r.tag, err |-> r.err]
            /\ IF r.tag = "Panic"
               THEN /\ pc' = "panicked"
                    /\ UNCHANGED <<i, priority_fees, priority_fee_error,
                                   first_ok, first_ok_out>>
               ELSE IF r.tag = "Ok"
               THEN /\ priority_fees' = r.out
                    /\ pc' = "after_loop"
                    /\ first_ok' = i + 1
                    /\ first_ok_out' = r.out
                    /\ UNCHANGED <<i, priority_fee_error>>
               ELSE /\ priority_fee_error' = on_error(priority_fee_error, r.err)
                    /\ i' = i + 1
                    /\ pc' = IF i + 1 = MAX_RETRIES THEN "after_loop" ELSE "loop"
                    /\ UNCHANGED <<priority_fees, first_ok, first_ok_out>>
    /\ UNCHANGED <<overflow_checks, signatures, result, sig_calls, sig_reply,
                   responses, extracted>>

\* main.rs:60-70: the error check, the median and the clamp
finish ==
    /\ pc = "after_loop"
    /\ pc' = "done"
    /\ IF priority_fee_error.some
       THEN /\ result' = ErrResult(priority_fee_error.err)
            /\ UNCHANGED priority_fees
       ELSE IF priority_fees = <<>>
       THEN /\ result' = OkResult(<<>>)
            /\ UNCHANGED priority_fees
       ELSE /\ priority_fees' = sort_unstable(priority_fees)
            /\ result' = OkResult(min(median(priority_fees'), FEE_CAP))
    /\ UNCHANGED <<overflow_checks, signatures, i, priority_fee_error,
                   sig_calls, sig_reply, batch_calls, last_batch, first_ok,
                   first_ok_out, responses, extracted>>

Next == fetch_signatures \/ attempt \/ finish

Spec == Init /\ [][Next]_vars

\* ------------------------------------------------------------------------
\* get_priority_fees_for_signatures alone, on a wider range of transactions
\* ------------------------------------------------------------------------

FeeValues == {Nat2Big(4999), Nat2Big(5000), Nat2Big(10000), U64_MAX}

CuValues ==
    {None64, Some64(<<>>), Some64(<<1>>), Some64(Nat2Big(1000)),
     Some64(Sub(I64_LIMIT, <<1>>)), Some64(I64_LIMIT)}

FeeItems ==
    {ErrorItem, NullResultItem, NullMetaItem}
        \cup {TxItem(f, c) : f \in FeeValues, c \in CuValues}

InitFees ==
    /\ overflow_checks \in BOOLEAN
    /\ InitRequest
    /\ responses \in SeqUpTo(FeeItems, MaxBatch)
    /\ extracted = [tag |-> "None", out |-> <<>>]

\* main.rs:198-238 on the body `responses`, for one requested signature
extract_fees ==
    /\ extracted.tag = "None"
    /\ LET r == get_priority_fees_for_signatures(<<1>>, BodyReply(responses),
                                                 overflow_checks)
       IN  extracted' = [tag |-> r.tag, out |-> r.out]
    /\ UNCHANGED <<overflow_checks, responses>>
    /\ UNCHANGED request_vars

NextFees == extract_fees

SpecFees == InitFees /\ [][NextFees]_vars

\* ------------------------------------------------------------------------
\* Properties of one request (Spec)
\* ------------------------------------------------------------------------

\* samples strictly below v, and samples not above v
CountLess(samples, v) == Cardinality({k \in 1..Len(samples) : Less(samples[k], v)})
CountLeq(samples, v) == Cardinality({k \in 1..Len(samples) : Leq(samples[k], v)})

\* v is the element at 0-based index floor(len/2) of the ascending sort
IsUpperMedian(samples, v) ==
    /\ \E k \in 1..Len(samples) : samples[k] = v
    /\ CountLess(samples, v) <= Len(samples) \div 2
    /\ Len(samples) \div 2 < CountLeq(samples, v)

\* e is the estimate for these samples: 0 for none, else the clamped median
IsEstimate(samples, e) ==
    IF samples = <<>> THEN e = <<>>
    ELSE \E k \in 1..Len(samples) :
            /\ IsUpperMedian(samples, samples[k])
            /\ e = IF Less(FEE_CAP, samples[k]) THEN FEE_CAP ELSE samples[k]

Returned == pc = "done"

\* C1: with a non-empty signature list, the request returns the estimate of
\* the first attempt that succeeds, whichever attempt (1..10) that is, and
\* returns an error only when all 10 attempts have failed.
C1_FirstSuccessWins ==
    (Returned /\ signatures # <<>>) =>
        /\ first_ok >= 1 =>
              (result.tag = "Ok" /\ IsEstimate(first_ok_out, result.fee))
        /\ result.tag = "Err" =>
              (first_ok = 0 /\ batch_calls = MAX_RETRIES)

\* C2: with a non-empty signature list and no attempt succeeding, exactly 10
\* attempts are made and the request returns the error of the last one,
\* never an estimate; no request makes more than 10 attempts.
C2_ExhaustionReturnsLastError ==
    /\ batch_calls <= MAX_RETRIES
    /\ (Returned /\ signatures # <<>> /\ first_ok = 0) =>
          /\ batch_calls = MAX_RETRIES
          /\ last_batch.tag = "Err"
          /\ result = ErrResult(last_batch.err)

\* ten failed attempts, the last one a batch-too-large failure
C2_Witness ==
    /\ Returned
    /\ first_ok = 0
    /\ batch_calls = MAX_RETRIES
    /\ last_batch.err = "batch_too_large"
    /\ result = ErrResult("batch_too_large")

\* C3: every estimate returned successfully lies in [0, 5_000_000].
C3_EstimateClamped ==
    result.tag = "Ok" => Leq(result.fee, FEE_CAP)

\* every sample above the ceiling, and the ceiling returned
C3_Witness ==
    /\ Returned
    /\ result = OkResult(FEE_CAP)
    /\ Len(priority_fees) >= 2
    /\ \A k \in 1..Len(priority_fees) : Less(FEE_CAP, priority_fees[k])

\* C4: when the request reduces a non-empty sample collection, the value
\* returned is min(s[floor(len/2)], 5_000_000) for s the ascending sort of
\* the samples: the upper median for an even length.
C4_UpperMedian ==
    (Returned /\ result.tag = "Ok" /\ first_ok_out # <<>>) =>
        IsEstimate(first_ok_out, result.fee)

\* two distinct samples arriving in descending order: the larger is returned
C4_Witness ==
    /\ Returned
    /\ result.tag = "Ok"
    /\ Len(first_ok_out) = 2
    /\ Less(first_ok_out[2], first_ok_out[1])
    /\ result.fee = first_ok_out[1]

SignaturesFetched(n) ==
    /\ sig_reply.kind = "body"
    /\ ~sig_reply.error
    /\ sig_reply.result
    /\ sig_reply.n = n

\* C5: when the signature call succeeds with an empty list the request
\* returns the estimate 0 and never issues a getTransaction batch call.
C5_NoSignaturesNoBatch ==
    SignaturesFetched(0) =>
        /\ Returned
        /\ result = OkResult(<<>>)
        /\ batch_calls = 0

C5_Witness ==
    /\ SignaturesFetched(0)
    /\ sig_calls = 1
    /\ result = OkResult(<<>>)

\* the signature call failed: the request did not go through, the status
\* was not 200, the body did not parse, the error field was populated, or
\* neither result nor error was present
SignatureFailure ==
    \/ sig_reply.kind \in SigFailures
    \/ sig_reply.kind = "body" /\ sig_reply.error
    \/ sig_reply.kind = "body" /\ ~sig_reply.error /\ ~sig_reply.result

SignatureFailureError ==
    IF sig_reply.kind \in SigFailures THEN sig_reply.kind
    ELSE IF sig_reply.error THEN "rpc_error"
    ELSE "missing_result"

\* C8: when the signature call fails the request returns that error at
\* once: the signature call is made exactly once and no getTransaction
\* batch call is issued.
C8_SignatureFailurePropagates ==
    /\ sig_calls <= 1
    /\ SignatureFailure =>
          /\ Returned
          /\ result = ErrResult(SignatureFailureError)
          /\ sig_calls = 1
          /\ batch_calls = 0

\* an answer carrying both an error and a result
C8_Witness ==
    /\ sig_reply.kind = "body"
    /\ sig_reply.error
    /\ sig_reply.result
    /\ sig_reply.n > 0
    /\ result = ErrResult("rpc_error")

\* C9: when a non-empty signature list is fetched and the extraction yields
\* no eligible sample, the request returns the estimate 0, not an error.
C9_NoSamplesGivesZero ==
    (Returned /\ signatures # <<>> /\ first_ok >= 1 /\ first_ok_out = <<>>) =>
        result = OkResult(<<>>)

\* ------------------------------------------------------------------------
\* Properties of the extraction (SpecFees)
\* ------------------------------------------------------------------------

\* computeUnitsConsumed of the response item, absent counted as 0
CuOrZero(item) == IF item.cu.some THEN item.cu.val ELSE <<>>

\* no error, a result, a meta, and computeUnitsConsumed > 0
PositiveCu(item) ==
    /\ ~item.error
    /\ item.result
    /\ item.meta
    /\ CuOrZero(item) # <<>>

\* the same with computeUnitsConsumed in 1..2^63-1, the values that are
\* still positive as a signed 64-bit integer
PositiveI64Cu(item) == PositiveCu(item) /\ Less(CuOrZero(item), I64_LIMIT)

\* the 1-based positions of the items of each kind, and the place among them
\* of the item at position k
PositiveCuBefore(k) == {j \in 1..k : PositiveCu(responses[j])}
PositiveI64CuBefore(k) == {j \in 1..k : PositiveI64Cu(responses[j])}

Accepted == extracted.tag = "Ok"

\* what the extraction appends for an item it does not skip
SampleOf(item) == priority_fee(item, overflow_checks).value

\* C6 as stated: an accepted response yields exactly one sample for each
\* item without error, with a result, a meta and computeUnitsConsumed > 0,
\* in the order of those items, and nothing for any other item.
C6_OneSamplePerPositiveCu ==
    Accepted =>
        /\ Len(extracted.out) = Cardinality(PositiveCuBefore(Len(responses)))
        /\ \A k \in PositiveCuBefore(Len(responses)) :
              extracted.out[Cardinality(PositiveCuBefore(k))]
                  = SampleOf(responses[k])

\* C6 amended: the same for the items whose computeUnitsConsumed is in
\* 1..2^63-1; an item reporting 2^63 or more is skipped like one reporting 0.
C6_OneSamplePerPositiveI64Cu ==
    Accepted =>
        /\ Len(extracted.out) = Cardinality(PositiveI64CuBefore(Len(responses)))
        /\ \A k \in PositiveI64CuBefore(Len(responses)) :
              extracted.out[Cardinality(PositiveI64CuBefore(k))]
                  = SampleOf(responses[k])

\* an errored item before a valid one: one sample, the valid item's
C6_Witness ==
    /\ Accepted
    /\ Len(responses) = 2
    /\ responses[1].error
    /\ PositiveI64Cu(responses[2])
    /\ extracted.out = <<Nat2Big(5000000)>>

\* floor(((fee - 5000) * 1_000_000) / computeUnitsConsumed), no width applied
ExactFee(item) == Div(Mul(Sub(item.fee, BASE_FEE), MICRO), CuOrZero(item))

\* C7: for every transaction that is not skipped and has fee >= 5000, the
\* sample appended is floor(((fee - 5000) * 1_000_000) / computeUnitsConsumed)
\* exactly.
C7_ExactSample ==
    Accepted =>
        \A k \in PositiveI64CuBefore(Len(responses)) :
            Leq(BASE_FEE, responses[k].fee) =>
                extracted.out[Cardinality(PositiveI64CuBefore(k))]
                    = ExactFee(responses[k])

\* ((((fee - 5000) mod 2^128) * 1_000_000) mod 2^128) / computeUnitsConsumed,
\* mod 2^64, for fee < 5000
WrappedFee(item) ==
    LET diff == Sub(Add(Pow256(16), item.fee), BASE_FEE)
        prod == Trunc(Mul(diff, MICRO), 16)
    IN  Trunc(Div(prod, CuOrZero(item)), 8)

\* C10 as stated: an item without error, with a meta, computeUnitsConsumed
\* > 0 and fee < 5000 is never skipped: the extraction aborts at it (checked
\* arithmetic) or appends the wrapped and truncated value.
C10_UnguardedSubtraction ==
    extracted.tag # "None" =>
        \A k \in PositiveCuBefore(Len(responses)) :
            Less(responses[k].fee, BASE_FEE) =>
                IF overflow_checks THEN extracted.tag = "Panic"
                ELSE /\ Accepted
                     /\ Cardinality(PositiveCuBefore(k)) <= Len(extracted.out)
                     /\ extracted.out[Cardinality(PositiveCuBefore(k))]
                            = WrappedFee(responses[k])

\* C10 amended: the same for computeUnitsConsumed in 1..2^63-1.
C10_UnguardedSubtractionI64 ==
    extracted.tag # "None" =>
        \A k \in PositiveI64CuBefore(Len(responses)) :
            Less(responses[k].fee, BASE_FEE) =>
                IF overflow_checks THEN extracted.tag = "Panic"
                ELSE /\ Accepted
                     /\ Cardinality(PositiveI64CuBefore(k)) <= Len(extracted.out)
                     /\ extracted.out[Cardinality(PositiveI64CuBefore(k))]
                            = WrappedFee(responses[k])

\* without overflow checks, fee 4999 and 1000 compute units after a valid
\* item: the wrapped value is the second sample
C10_Witness ==
    /\ ~overflow_checks
    /\ Accepted
    /\ Len(responses) = 2
    /\ responses[2] = TxItem(Nat2Big(4999), Some64(Nat2Big(1000)))
    /\ Len(extracted.out) = 2
    /\ extracted.out[2] = <<171, 20, 4, 86, 14, 45, 178, 157>>

====
